---------------------------- MODULE Spec2Model ----------------------------
(***************************************************************************)
(* Model of src/server.js: the Twilio media-stream relay.  One WebSocket   *)
(* connection (one CallSession) with the closure state of the connection   *)
(* handler, the recognizers and push streams it creates, the webhook, and  *)
(* the mu-law decoder.                                                     *)
(***************************************************************************)
EXTENDS Integers, Sequences, FiniteSets, TLC

VARIABLES
    N8N,            \* whether the webhook URL is configured (line 12)
    callSid,        \* line 60
    rec,            \* line 61: index into recs, 0 = undefined
    pushStream,     \* line 62: index into sinks, 0 = undefined
    lastSentTime,   \* line 63
    recs,           \* every SpeechRecognizer constructed so far (line 72)
    sinks,          \* every push stream constructed so far (line 70)
    wsState,        \* the transport: "open", "closing" (ws.close() called), "closed"
    wsCloseCalls,   \* number of ws.close() calls made by this side (line 158)
    clock,          \* last value returned by Date.now()
    sent,           \* webhook POSTs issued (line 98), in order
    inflight,       \* number of POSTs not yet settled
    crashed,        \* an exception escaped a handler
    finals,         \* history: the non-empty final-result events, in order
    phase,          \* history: how far the handled events follow start media* stop close
    arrived,        \* history: PCM buffers of the media frames accepted, in arrival order
    closeRuns,      \* history: number of runs of the close handler
    last,           \* history: what the last handler run did
    steps,          \* history: number of handler runs so far
    frames,         \* history: payloads of the media frames that passed line 147
    recState,       \* per recognizer: what the speech SDK has reported about it
    openedBy,       \* history: per recognizer, the start message that opened it
    peer,           \* callSid, rec and lastSentTime of a second connection
    peerFinals,     \* history: the non-empty final results of the second connection
    mulawData,      \* decoder input  (decodeMuLawToPCM16 parameter)
    pcm16,          \* decoder output (decodeMuLawToPCM16 result)
    decoded         \* whether the decoder has run on mulawData

vars == <<N8N, callSid, rec, pushStream, lastSentTime, recs, sinks, wsState,
          wsCloseCalls, clock, sent, inflight, crashed, finals, phase, arrived,
          closeRuns, last, steps, frames, recState, openedBy, peer,
          peerFinals, mulawData, pcm16, decoded>>

connVars == <<N8N, callSid, rec, pushStream, lastSentTime, recs, sinks, wsState,
              wsCloseCalls, clock, sent, inflight, crashed, finals, phase,
              arrived, closeRuns, last, steps, frames, recState, openedBy,
              peer, peerFinals>>

decVars == <<mulawData, pcm16, decoded>>

peerVars == <<peer, peerFinals>>

-----------------------------------------------------------------------------
(* Bounds of the model *)

MaxSteps == 5       \* handler runs on the connection
MaxFrameLen == 3    \* bytes of a decoder input
BootTime == 100000  \* Date.now() when the connection is accepted

(* Program constants *)

DebounceMs == 2000
Bias == 132
MantissaMask == 15
ExponentMask == 112
SignMask == 128

-----------------------------------------------------------------------------
(* Integer operators of the language on two's-complement values.  Every    *)
(* intermediate value of the decoder lies within -256 .. 32256, far inside  *)
(* the 32-bit range, so the operators are written without the 2^32 wrap.    *)

Pow2(n) == 2 ^ n

RECURSIVE And32(_, _)
And32(x, y) ==
    IF x = 0 \/ y = 0 THEN 0
    ELSE IF x = -1 THEN y
    ELSE IF y = -1 THEN x
    ELSE (x % 2) * (y % 2) + 2 * And32(x \div 2, y \div 2)

Not32(x) == -x - 1

Shl32(x, n) == x * Pow2(n % 32)

Shr32(x, n) == x \div Pow2(n % 32)

ToInt16(x) ==
    LET u == x % 65536 IN IF u >= 32768 THEN u - 65536 ELSE u

-----------------------------------------------------------------------------
(* decodeMuLawToPCM16, lines 20-30 *)

Bytes == 0 .. 255

DecodeSampleSignOfInput(b) ==
    LET mulaw == Not32(b)
        t0 == Shl32(And32(mulaw, MantissaMask), 3) + Bias
        t == Shl32(t0, Shr32(And32(mulaw, ExponentMask), 4))
    IN  ToInt16(IF And32(b, SignMask) # 0 THEN Bias - t ELSE t - Bias)

(* lines 24-27, were the shift of line 26 one bit wider *)
SampleValueWideShift(b) ==
    LET mulaw == Not32(b)
        t0 == Shl32(And32(mulaw, MantissaMask), 3) + Bias
        t == Shl32(t0, Shr32(And32(mulaw, ExponentMask), 4) + 1)
    IN  IF And32(mulaw, SignMask) # 0 THEN Bias - t ELSE t - Bias

(* lines 24-27: the number computed for one byte *)
SampleValue(b) ==
    LET mulaw == Not32(b)
        t0 == Shl32(And32(mulaw, MantissaMask), 3) + Bias
        t == Shl32(t0, Shr32(And32(mulaw, ExponentMask), 4))
    IN  IF And32(mulaw, SignMask) # 0 THEN Bias - t ELSE t - Bias

(* pcm16[i] = ..., line 27: the store into the Int16Array keeps 16 bits *)
DecodeSample(b) == ToInt16(SampleValue(b))

(* buf.writeInt16LE(value, offset), line 151: a RangeError outside Int16 *)
WriteInt16LEThrows(value) == value < -32768 \/ value > 32767

decodeMuLawToPCM16(data) == [i \in 1 .. Len(data) |-> DecodeSample(data[i])]

(* buf.writeInt16LE(pcm16[i], i * 2) for every i, lines 150-151 *)
RECURSIVE PackInt16LE(_)
PackInt16LE(samples) ==
    IF samples = <<>> THEN <<>>
    ELSE LET u == Head(samples) % 65536
         IN  <<u % 256, u \div 256>> \o PackInt16LE(Tail(samples))

-----------------------------------------------------------------------------
(* Buffer.from(payload, "base64"), line 148.  A string is a sequence of     *)
(* characters: 0..63 a base64 digit (by value), PadChar '=', BadChar any    *)
(* character outside the alphabet.  The decoder skips characters outside    *)
(* the alphabet, stops at the first '=', and drops a trailing partial byte. *)

PadChar == 64
BadChar == 65

RECURSIVE Sextets(_)
Sextets(s) ==
    IF s = <<>> \/ Head(s) = PadChar THEN <<>>
    ELSE IF Head(s) = BadChar THEN Sextets(Tail(s))
    ELSE <<Head(s)>> \o Sextets(Tail(s))

RECURSIVE SextetsToBytes(_)
SextetsToBytes(x) ==
    LET b1 == x[1] * 4 + x[2] \div 16
        b2 == (x[2] % 16) * 16 + x[3] \div 4
        b3 == (x[3] % 4) * 64 + x[4]
    IN  IF Len(x) >= 4 THEN <<b1, b2, b3>> \o SextetsToBytes(SubSeq(x, 5, Len(x)))
        ELSE IF Len(x) = 3 THEN <<b1, b2>>
        ELSE IF Len(x) = 2 THEN <<b1>>
        ELSE <<>>

Base64Decode(s) == SextetsToBytes(Sextets(s))

-----------------------------------------------------------------------------
(* Transport messages.  A raw message is the JSON text it carries, given by *)
(* its shape: json is "invalid" (not JSON), "null", "number", "string" or   *)
(* "object"; an object has an event ("" = no event field), a start field    *)
(* (<<>> = absent, <<sid>> = start.callSid) and a media.payload.            *)

NoPayload == [t |-> "absent", n |-> 0, s |-> <<>>]
NumPayload(n) == [t |-> "number", n |-> n, s |-> <<>>]
StrPayload(s) == [t |-> "string", n |-> 0, s |-> s]

Obj(event, start, payload) ==
    [json |-> "object", event |-> event, start |-> start, payload |-> payload]

NonObj(kind) ==
    [json |-> kind, event |-> "", start |-> <<>>, payload |-> NoPayload]

FrameB == <<31, 56, 0, PadChar>>             \* "f4A=" : bytes 0x7F 0x80
FrameC == <<0, 0, 0, 0>>                     \* "AAAA" : bytes 0x00 0x00 0x00
NotBase64 == <<BadChar, BadChar>>            \* "!!"

ValidFrames == {FrameB, FrameC}

StartMsgs == {Obj("start", <<>>, NoPayload), Obj("start", <<"CA123">>, NoPayload)}

ValidMediaMsgs == {Obj("media", <<>>, StrPayload(f)) : f \in ValidFrames}

BadMediaMsgs ==
    {Obj("media", <<>>, NoPayload), Obj("media", <<>>, NumPayload(5)),
     Obj("media", <<>>, StrPayload(NotBase64))}

StopMsg == Obj("stop", <<>>, NoPayload)

NoEventMsgs == {Obj("", <<>>, NoPayload), Obj("mark", <<>>, NoPayload)}

NonObjectMsgs == {NonObj("null"), NonObj("number"), NonObj("string")}

InvalidMsg == NonObj("invalid")

RawMsgs ==
    StartMsgs \cup ValidMediaMsgs \cup BadMediaMsgs \cup {StopMsg}
        \cup NoEventMsgs \cup NonObjectMsgs \cup {InvalidMsg}

(* JSON.parse(raw.toString()) in the try of lines 133-137 *)
ParseThrows(raw) == raw.json = "invalid"

(* data.event, line 139: reading a property of null throws a TypeError;   *)
(* of a number or a string it is undefined                                *)
EventThrows(data) == data.json = "null"

EventOf(data) == IF data.json = "object" THEN data.event ELSE ""

(* data.start?.callSid || "", line 141 *)
StartSid(data) == IF data.start = <<>> THEN "" ELSE data.start[1]

(* truthiness of data.media?.payload, line 147 *)
Truthy(p) == (p.t = "number" /\ p.n # 0) \/ (p.t = "string" /\ p.s # <<>>)

(* Buffer.from(x, "base64") throws a TypeError when x is a number *)
BufferFromThrows(p) == p.t = "number"

-----------------------------------------------------------------------------
(* Objects of the speech SDK *)

NewRec == [stopCalls |-> 0, pending |-> 0, closeCalls |-> 0]
NewSink == [closeCalls |-> 0, writes |-> <<>>, lateWrites |-> 0]

(* the SDK has yet to settle the start, and has reported nothing *)
NewRecState == [start |-> "pending", canceled |-> FALSE, sessionStopped |-> FALSE]

SinkState(i) ==
    IF i = 0 THEN "none" ELSE IF sinks[i].closeCalls > 0 THEN "closed" ELSE "open"

TotalWrites ==
    LET RECURSIVE Sum(_)
        Sum(i) == IF i = 0 THEN 0
                  ELSE Len(sinks[i].writes) + sinks[i].lateWrites + Sum(i - 1)
    IN  Sum(Len(sinks))

Live(k) == k \in 1 .. Len(recs) /\ recs[k].closeCalls = 0

prog == <<callSid, rec, pushStream, lastSentTime, recs, sinks, wsState,
          wsCloseCalls, sent, inflight, crashed>>

(* the variables of the program a handler run has changed *)
Touched ==
    (IF callSid' # callSid THEN {"callSid"} ELSE {})
        \cup (IF rec' # rec THEN {"rec"} ELSE {})
        \cup (IF pushStream' # pushStream THEN {"pushStream"} ELSE {})
        \cup (IF lastSentTime' # lastSentTime THEN {"lastSentTime"} ELSE {})
        \cup (IF recs' # recs THEN {"recs"} ELSE {})
        \cup (IF sinks' # sinks THEN {"sinks"} ELSE {})
        \cup (IF wsState' # wsState THEN {"wsState"} ELSE {})
        \cup (IF wsCloseCalls' # wsCloseCalls THEN {"wsCloseCalls"} ELSE {})
        \cup (IF sent' # sent THEN {"sent"} ELSE {})
        \cup (IF inflight' # inflight THEN {"inflight"} ELSE {})
        \cup (IF crashed' # crashed THEN {"crashed"} ELSE {})

NoLast ==
    [op |-> "none", raw |-> InvalidMsg, pre |-> "none", hadStart |-> FALSE,
     wrote |-> 0, threw |-> FALSE, changed |-> FALSE, prev |-> "none",
     touched |-> {}, log |-> <<>>, k |-> 0]

-----------------------------------------------------------------------------
(* History bookkeeping *)

IsValidMedia(raw) ==
    /\ raw.json = "object"
    /\ raw.event = "media"
    /\ raw.payload.t = "string"
    /\ raw.payload.s # <<>>
    /\ \A i \in 1 .. Len(raw.payload.s) : raw.payload.s[i] # BadChar

IsStart(raw) == raw.json = "object" /\ raw.event = "start"
IsStop(raw) == raw.json = "object" /\ raw.event = "stop"

(* a media message with a string payload handled while pushStream is set *)
IsAcceptedMedia(raw) ==
    /\ raw.json = "object"
    /\ raw.event = "media"
    /\ raw.payload.t = "string"
    /\ raw.payload.s # <<>>
    /\ pushStream # 0

PhaseAfterMessage(raw) ==
    IF phase = "idle" /\ IsStart(raw) THEN "streaming"
    ELSE IF phase = "streaming" /\ IsValidMedia(raw) THEN "streaming"
    ELSE IF phase = "streaming" /\ IsStop(raw) THEN "stopped"
    ELSE "off"

NoteMessage(raw) ==
    /\ phase' = PhaseAfterMessage(raw)
    /\ arrived' = IF phase' = "off" THEN <<>>
                  ELSE IF IsValidMedia(raw) THEN Append(arrived, raw.payload.s)
                  ELSE arrived
    /\ last' = [op |-> "message", raw |-> raw, pre |-> SinkState(pushStream),
                hadStart |-> Len(recs) > 0, wrote |-> TotalWrites' - TotalWrites,
                threw |-> crashed', changed |-> prog' # prog, prev |-> last.op,
                touched |-> Touched, log |-> <<>>, k |-> 0]
    /\ steps' = steps + 1
    /\ frames' = IF IsAcceptedMedia(raw) THEN Append(frames, raw.payload.s)
                 ELSE frames
    /\ openedBy' = IF IsStart(raw) THEN Append(openedBy, raw) ELSE openedBy
    /\ UNCHANGED <<finals, closeRuns>>

(* k: the recognizer whose callback has run (0: none in particular) *)
NoteEventOf(op, k) ==
    /\ last' = [op |-> op, raw |-> InvalidMsg, pre |-> SinkState(pushStream),
                hadStart |-> Len(recs) > 0, wrote |-> TotalWrites' - TotalWrites,
                threw |-> crashed', changed |-> prog' # prog, prev |-> last.op,
                touched |-> Touched, log |-> <<>>, k |-> k]
    /\ steps' = steps + 1
    /\ UNCHANGED <<phase, arrived, closeRuns, frames, openedBy>>

NoteEvent(op) == NoteEventOf(op, 0)

-----------------------------------------------------------------------------
(* startRecognizer, lines 65-129 *)
startRecognizer ==
    /\ sinks' = Append(sinks, NewSink)
    /\ pushStream' = Len(sinks) + 1
    /\ recs' = Append(recs, NewRec)
    /\ rec' = Len(recs) + 1
    /\ recState' = Append(recState, NewRecState)

(* line 147: if (!pushStream || !data.media?.payload) return *)
MediaDiscardedNoSinkCheck(data) == ~Truthy(data.payload)

MediaDiscarded(data) == pushStream = 0 \/ ~Truthy(data.payload)

(* pushStream.write(buf), line 152: the sink keeps the buffers in call order *)
SinkWritePrepend(writes, buf) == <<buf>> \o writes

SinkWriteMerge(writes, buf) ==
    IF writes = <<>> THEN <<buf>>
    ELSE [writes EXCEPT ![Len(writes)] = @ \o buf]

SinkWrite(writes, buf) == Append(writes, buf)

(* case "start", lines 140-144 *)
OnStart(data) ==
    /\ callSid' = StartSid(data)
    /\ startRecognizer
    /\ UNCHANGED <<lastSentTime, wsState, wsCloseCalls, sent, inflight, crashed, clock>>

(* case "media", lines 146-154 *)
OnMedia(data) ==
    IF MediaDiscarded(data) THEN UNCHANGED <<prog, clock>>
    ELSE IF pushStream = 0 \/ BufferFromThrows(data.payload)
    THEN /\ crashed' = TRUE
         /\ UNCHANGED <<callSid, rec, pushStream, lastSentTime, recs, sinks,
                        wsState, wsCloseCalls, sent, inflight, clock>>
    ELSE LET ulaw == Base64Decode(data.payload.s)
             buf == PackInt16LE(decodeMuLawToPCM16(ulaw))
         IN  /\ IF sinks[pushStream].closeCalls = 0
                THEN /\ sinks' = [sinks EXCEPT ![pushStream].writes =
                                      SinkWrite(@, buf)]
                     /\ UNCHANGED crashed
                ELSE \* a write on a closed stream: the SDK may reject it
                     /\ sinks' = [sinks EXCEPT ![pushStream].lateWrites = @ + 1]
                     /\ \E throws \in BOOLEAN : crashed' = throws
             /\ UNCHANGED <<callSid, rec, pushStream, lastSentTime, recs,
                            wsState, wsCloseCalls, sent, inflight, clock>>

(* case "stop", lines 156-159 *)
OnStop ==
    /\ wsCloseCalls' = wsCloseCalls + 1
    /\ wsState' = IF wsState = "open" THEN "closing" ELSE wsState
    /\ UNCHANGED <<callSid, rec, pushStream, lastSentTime, recs, sinks, sent,
                   inflight, crashed, clock>>

(* ws.on("message"), lines 131-161 *)
OnMessage(raw) ==
    /\ ~crashed
    /\ steps < MaxSteps
    /\ IF ParseThrows(raw) THEN UNCHANGED <<prog, clock, recState>>
       ELSE IF EventThrows(raw)
       THEN /\ crashed' = TRUE
            /\ UNCHANGED <<callSid, rec, pushStream, lastSentTime, recs, sinks,
                           wsState, wsCloseCalls, sent, inflight, clock, recState>>
       ELSE IF EventOf(raw) = "start" THEN OnStart(raw)
       ELSE IF EventOf(raw) = "media" THEN OnMedia(raw) /\ UNCHANGED recState
       ELSE IF EventOf(raw) = "stop" THEN OnStop /\ UNCHANGED recState
       ELSE UNCHANGED <<prog, clock, recState>>
    /\ NoteMessage(raw)
    /\ UNCHANGED <<N8N, decVars, peerVars>>

(* lines 165-173: whether the stop of lines 169-172 is reached when the     *)
(* close of line 166 has thrown, were both calls in one try block           *)
StopReachedSameTry(sinkThrew) == ~sinkThrew

(* the catch of line 167 ends the first try; line 168 opens the second *)
StopReached(sinkThrew) == TRUE

(* ws.on("close"), lines 163-174; sinkThrew: pushStream.close() throws *)
OnClose(sinkThrew) ==
    /\ ~crashed
    /\ steps < MaxSteps
    /\ sinkThrew => pushStream # 0
    /\ sinks' = IF pushStream = 0 THEN sinks
                ELSE [sinks EXCEPT ![pushStream].closeCalls = @ + 1]
    /\ recs' = IF rec = 0 \/ ~StopReached(sinkThrew) THEN recs
               ELSE [recs EXCEPT ![rec].stopCalls = @ + 1, ![rec].pending = @ + 1]
    /\ wsState' = "closed"
    /\ closeRuns' = closeRuns + 1
    /\ steps' = steps + 1
    /\ phase' = IF phase = "stopped" THEN "done" ELSE "off"
    /\ arrived' = IF phase' = "off" THEN <<>> ELSE arrived
    /\ UNCHANGED <<callSid, rec, pushStream, lastSentTime, wsCloseCalls, sent,
                   inflight, crashed, clock, finals, frames, openedBy>>
    /\ last' = [op |-> "close", raw |-> InvalidMsg, pre |-> SinkState(pushStream),
                hadStart |-> Len(recs) > 0, wrote |-> 0, threw |-> crashed',
                changed |-> prog' # prog, prev |-> last.op,
                touched |-> Touched,
                log |-> (IF pushStream = 0 THEN <<>>
                         ELSE IF sinkThrew THEN <<"sinkCloseThrew">>
                         ELSE <<"sinkClose">>)
                        \o (IF rec = 0 \/ ~StopReached(sinkThrew) THEN <<>>
                            ELSE <<"stopInit">>),
                k |-> 0]
    /\ UNCHANGED <<N8N, decVars, recState, peerVars>>

(* the continuations of stopContinuousRecognitionAsync, lines 170-171:      *)
(* both call rec.close() on the recognizer the variable rec then refers to  *)
StopSettled(k, ok) ==
    /\ ~crashed
    /\ steps < MaxSteps
    /\ k \in 1 .. Len(recs)
    /\ recs[k].pending > 0
    /\ recs' = [[recs EXCEPT ![k].pending = @ - 1] EXCEPT ![rec].closeCalls = @ + 1]
    /\ UNCHANGED <<callSid, rec, pushStream, lastSentTime, sinks, wsState,
                   wsCloseCalls, sent, inflight, crashed, clock, finals>>
    /\ NoteEvent("stopSettled")
    /\ UNCHANGED <<N8N, decVars, recState, peerVars>>

-----------------------------------------------------------------------------
(* Recognizer events *)

Texts == {"", "hello"}

(* elapsed times between two reads of Date.now() *)
Deltas == {1, DebounceMs - 1, DebounceMs}

(* line 89: now - lastSentTime < 2000 *)
DebouncedInclusive(now) == now - lastSentTime <= DebounceMs

Debounced(now) == now - lastSentTime < DebounceMs

(* rec.recognized, were line 93 to come after the await of the POST: the    *)
(* handler issues the POST and leaves lastSentTime to the continuation      *)
OnRecognizedStampsLate(k, text, d) ==
    /\ ~crashed
    /\ steps < MaxSteps
    /\ Live(k)
    /\ IF text = ""
       THEN UNCHANGED <<sent, inflight, clock, finals>>
       ELSE LET now == clock + d
            IN  /\ clock' = now
                /\ IF Debounced(now)
                   THEN /\ finals' = Append(finals, [at |-> now, fwd |-> FALSE,
                                                     acc |-> FALSE])
                        /\ UNCHANGED <<sent, inflight>>
                   ELSE /\ finals' = Append(finals, [at |-> now, fwd |-> N8N,
                                                     acc |-> TRUE])
                        /\ IF N8N
                           THEN /\ sent' = Append(sent, [callSid |-> callSid,
                                                         text |-> text, at |-> now])
                                /\ inflight' = inflight + 1
                           ELSE UNCHANGED <<sent, inflight>>
    /\ UNCHANGED <<callSid, rec, pushStream, lastSentTime, recs, sinks, wsState,
                   wsCloseCalls, crashed>>
    /\ NoteEventOf(IF text = "" THEN "finalEmpty" ELSE "final", k)
    /\ UNCHANGED <<N8N, decVars, recState, peerVars>>

(* rec.recognized, lines 83-112, up to the await of the POST *)
OnRecognized(k, text, d) ==
    /\ ~crashed
    /\ steps < MaxSteps
    /\ Live(k)
    /\ IF text = ""
       THEN UNCHANGED <<lastSentTime, sent, inflight, clock, finals>>
       ELSE LET now == clock + d
            IN  /\ clock' = now
                /\ IF Debounced(now)
                   THEN /\ finals' = Append(finals, [at |-> now, fwd |-> FALSE,
                                                     acc |-> FALSE])
                        /\ UNCHANGED <<lastSentTime, sent, inflight>>
                   ELSE /\ lastSentTime' = now
                        /\ finals' = Append(finals, [at |-> now, fwd |-> N8N,
                                                     acc |-> TRUE])
                        /\ IF N8N
                           THEN /\ sent' = Append(sent, [callSid |-> callSid,
                                                         text |-> text, at |-> now])
                                /\ inflight' = inflight + 1
                           ELSE UNCHANGED <<sent, inflight>>
    /\ UNCHANGED <<callSid, rec, pushStream, recs, sinks, wsState, wsCloseCalls,
                   crashed>>
    /\ NoteEventOf(IF text = "" THEN "finalEmpty" ELSE "final", k)
    /\ UNCHANGED <<N8N, decVars, recState, peerVars>>

(* rec.recognizing, were it to submit the text as rec.recognized does *)
OnRecognizingForwards(k, text) ==
    /\ ~crashed
    /\ steps < MaxSteps
    /\ Live(k)
    /\ text # ""
    /\ lastSentTime' = clock
    /\ sent' = Append(sent, [callSid |-> callSid, text |-> text, at |-> clock])
    /\ UNCHANGED <<callSid, rec, pushStream, recs, sinks, wsState, wsCloseCalls,
                   inflight, crashed, clock, finals>>
    /\ NoteEvent("interim")
    /\ UNCHANGED <<N8N, decVars, recState, peerVars>>

(* rec.recognizing, lines 75-80: logs the text *)
OnRecognizing(k, text) ==
    /\ ~crashed
    /\ steps < MaxSteps
    /\ Live(k)
    /\ UNCHANGED <<prog, clock, finals>>
    /\ NoteEvent("interim")
    /\ UNCHANGED <<N8N, decVars, recState, peerVars>>

(* the callbacks of startContinuousRecognitionAsync, lines 125-128: log *)
StartSettled(k, ok) ==
    /\ ~crashed
    /\ steps < MaxSteps
    /\ Live(k)
    /\ recState[k].start = "pending"
    /\ recState' = [recState EXCEPT ![k].start = IF ok THEN "ok" ELSE "failed"]
    /\ UNCHANGED <<prog, clock, finals>>
    /\ NoteEvent(IF ok THEN "startOk" ELSE "startFailed")
    /\ UNCHANGED <<N8N, decVars, peerVars>>

(* rec.canceled, were it to open a recognizer anew *)
OnCanceledRestarts(k) ==
    /\ ~crashed
    /\ steps < MaxSteps
    /\ Live(k)
    /\ startRecognizer
    /\ UNCHANGED <<callSid, lastSentTime, wsState, wsCloseCalls, sent, inflight,
                   crashed, clock, finals>>
    /\ NoteEvent("canceled")
    /\ UNCHANGED <<N8N, decVars, peerVars>>

(* rec.canceled, lines 115-117: logs the reason *)
OnCanceled(k) ==
    /\ ~crashed
    /\ steps < MaxSteps
    /\ Live(k)
    /\ recState' = [recState EXCEPT ![k].canceled = TRUE]
    /\ UNCHANGED <<prog, clock, finals>>
    /\ NoteEvent("canceled")
    /\ UNCHANGED <<N8N, decVars, peerVars>>

(* rec.sessionStopped, lines 120-122: logs *)
OnSessionStopped(k) ==
    /\ ~crashed
    /\ steps < MaxSteps
    /\ Live(k)
    /\ recState' = [recState EXCEPT ![k].sessionStopped = TRUE]
    /\ UNCHANGED <<prog, clock, finals>>
    /\ NoteEvent("sessionStopped")
    /\ UNCHANGED <<N8N, decVars, peerVars>>

(* the POST of line 98 settles, were a rejected POST to be sent once more *)
FetchSettledRetries(ok) ==
    /\ ~crashed
    /\ steps < MaxSteps
    /\ inflight > 0
    /\ IF ok
       THEN inflight' = inflight - 1 /\ UNCHANGED sent
       ELSE sent' = Append(sent, sent[Len(sent)]) /\ UNCHANGED inflight
    /\ UNCHANGED <<callSid, rec, pushStream, lastSentTime, recs, sinks, wsState,
                   wsCloseCalls, crashed, clock, finals>>
    /\ NoteEvent(IF ok THEN "fetchOk" ELSE "fetchFailed")
    /\ UNCHANGED <<N8N, decVars, recState, peerVars>>

(* the POST of line 98 settles: the await returns or the catch logs *)
FetchSettled(ok) ==
    /\ ~crashed
    /\ steps < MaxSteps
    /\ inflight > 0
    /\ inflight' = inflight - 1
    /\ UNCHANGED <<callSid, rec, pushStream, lastSentTime, recs, sinks, wsState,
                   wsCloseCalls, sent, crashed, clock, finals>>
    /\ NoteEvent(IF ok THEN "fetchOk" ELSE "fetchFailed")
    /\ UNCHANGED <<N8N, decVars, recState, peerVars>>

-----------------------------------------------------------------------------
(* A second connection: the same closure, with variables of its own *)

(* lines 60-63 *)
NewConn == [callSid |-> "", rec |-> 0, lastSentTime |-> 0]

(* case "start", lines 140-144, on the second connection *)
PeerStart(data) ==
    /\ ~crashed
    /\ steps < MaxSteps
    /\ peer' = [peer EXCEPT !.callSid = StartSid(data), !.rec = @ + 1]
    /\ UNCHANGED <<prog, clock, finals, peerFinals>>
    /\ NoteEvent("peerStart")
    /\ UNCHANGED <<N8N, decVars, recState>>

(* rec.recognized on the second connection, were lastSentTime one variable  *)
(* of the module, shared by every connection                                *)
PeerRecognizedShared(text, d) ==
    /\ ~crashed
    /\ steps < MaxSteps
    /\ peer.rec > 0
    /\ text # ""
    /\ LET now == clock + d
       IN  /\ clock' = now
           /\ IF now - lastSentTime < DebounceMs
              THEN /\ peerFinals' = Append(peerFinals, [at |-> now, fwd |-> FALSE,
                                                        acc |-> FALSE])
                   /\ UNCHANGED <<lastSentTime, sent, inflight>>
              ELSE /\ lastSentTime' = now
                   /\ peerFinals' = Append(peerFinals, [at |-> now, fwd |-> N8N,
                                                        acc |-> TRUE])
                   /\ IF N8N
                      THEN /\ sent' = Append(sent, [callSid |-> peer.callSid,
                                                    text |-> text, at |-> now])
                           /\ inflight' = inflight + 1
                      ELSE UNCHANGED <<sent, inflight>>
    /\ UNCHANGED <<callSid, rec, pushStream, recs, sinks, wsState, wsCloseCalls,
                   crashed, finals, peer>>
    /\ NoteEvent("peerFinal")
    /\ UNCHANGED <<N8N, decVars, recState>>

(* rec.recognized, lines 83-112, on the second connection *)
PeerRecognized(text, d) ==
    /\ ~crashed
    /\ steps < MaxSteps
    /\ peer.rec > 0
    /\ text # ""
    /\ LET now == clock + d
       IN  /\ clock' = now
           /\ IF now - peer.lastSentTime < DebounceMs
              THEN /\ peerFinals' = Append(peerFinals, [at |-> now, fwd |-> FALSE,
                                                        acc |-> FALSE])
                   /\ UNCHANGED <<peer, sent, inflight>>
              ELSE /\ peer' = [peer EXCEPT !.lastSentTime = now]
                   /\ peerFinals' = Append(peerFinals, [at |-> now, fwd |-> N8N,
                                                        acc |-> TRUE])
                   /\ IF N8N
                      THEN /\ sent' = Append(sent, [callSid |-> peer.callSid,
                                                    text |-> text, at |-> now])
                           /\ inflight' = inflight + 1
                      ELSE UNCHANGED <<sent, inflight>>
    /\ UNCHANGED <<callSid, rec, pushStream, lastSentTime, recs, sinks, wsState,
                   wsCloseCalls, crashed, finals>>
    /\ NoteEvent("peerFinal")
    /\ UNCHANGED <<N8N, decVars, recState>>

-----------------------------------------------------------------------------
(* The connection: wss.on("connection"), lines 58-63 *)

InitConn ==
    /\ N8N \in BOOLEAN
    /\ callSid = ""
    /\ rec = 0
    /\ pushStream = 0
    /\ lastSentTime = 0
    /\ recs = <<>>
    /\ sinks = <<>>
    /\ wsState = "open"
    /\ wsCloseCalls = 0
    /\ clock = BootTime
    /\ sent = <<>>
    /\ inflight = 0
    /\ crashed = FALSE
    /\ finals = <<>>
    /\ phase = "idle"
    /\ arrived = <<>>
    /\ closeRuns = 0
    /\ last = NoLast
    /\ steps = 0
    /\ frames = <<>>
    /\ recState = <<>>
    /\ openedBy = <<>>
    /\ peer = NewConn
    /\ peerFinals = <<>>

Init ==
    /\ InitConn
    /\ mulawData = <<>>
    /\ pcm16 = <<>>
    /\ decoded = FALSE

(* The transport delivers messages until it closes, and closes once *)
Message == wsState # "closed" /\ \E raw \in RawMsgs : OnMessage(raw)

Close == wsState # "closed" /\ \E sinkThrew \in BOOLEAN : OnClose(sinkThrew)

Recognizing == \E k \in 1 .. Len(recs), text \in Texts : OnRecognizing(k, text)

Recognized ==
    \E k \in 1 .. Len(recs), text \in Texts, d \in Deltas : OnRecognized(k, text, d)

StopContinuation == \E k \in 1 .. Len(recs), ok \in BOOLEAN : StopSettled(k, ok)

FetchContinuation == \E ok \in BOOLEAN : FetchSettled(ok)

StartContinuation == \E k \in 1 .. Len(recs), ok \in BOOLEAN : StartSettled(k, ok)

Canceled == \E k \in 1 .. Len(recs) : OnCanceled(k)

SessionStopped == \E k \in 1 .. Len(recs) : OnSessionStopped(k)

Next ==
    \/ Message
    \/ Close
    \/ Recognizing
    \/ Recognized
    \/ StopContinuation
    \/ FetchContinuation

Spec == Init /\ [][Next]_vars

(* The recognizer reports on its start, a cancellation or a stopped session *)
(* amid the messages of a call                                              *)
SessionMsgs == StartMsgs \cup ValidMediaMsgs \cup {StopMsg}

SessionMessage == wsState # "closed" /\ \E raw \in SessionMsgs : OnMessage(raw)

NextFaults ==
    \/ SessionMessage
    \/ Close
    \/ StopContinuation
    \/ StartContinuation
    \/ Canceled
    \/ SessionStopped

SpecFaults == Init /\ [][NextFaults]_vars

(* Two calls at once: the start messages and final results of both *)
StartMessage == wsState # "closed" /\ \E raw \in StartMsgs : OnMessage(raw)

PeerStartMessage == \E raw \in StartMsgs : PeerStart(raw)

PeerFinal == \E text \in Texts, d \in Deltas : PeerRecognized(text, d)

NextTwoCalls ==
    \/ StartMessage
    \/ Recognized
    \/ FetchContinuation
    \/ PeerStartMessage
    \/ PeerFinal

SpecTwoCalls == Init /\ [][NextTwoCalls]_vars

(* The handlers run again on a session already torn down *)
LateMessage == wsState = "closed" /\ \E raw \in RawMsgs : OnMessage(raw)

LateClose == wsState = "closed" /\ \E sinkThrew \in BOOLEAN : OnClose(sinkThrew)

NextAnyOrder == Next \/ LateMessage \/ LateClose

SpecAnyOrder == Init /\ [][NextAnyOrder]_vars

-----------------------------------------------------------------------------
(* The decoder on its own: every first byte, then bytes at the edges *)

EdgeBytes == {0, 127, 128, 255}

RECURSIVE EdgeSeqs(_)
EdgeSeqs(n) ==
    IF n = 0 THEN {<<>>}
    ELSE EdgeSeqs(n - 1) \cup
         {Append(q, b) : q \in {x \in EdgeSeqs(n - 1) : Len(x) = n - 1}, b \in EdgeBytes}

DecInputs ==
    {<<>>} \cup {<<b>> \o q : b \in Bytes, q \in EdgeSeqs(MaxFrameLen - 1)}

InitDec ==
    /\ InitConn
    /\ N8N = FALSE
    /\ mulawData \in DecInputs
    /\ pcm16 = <<>>
    /\ decoded = FALSE

Decode ==
    /\ ~decoded
    /\ pcm16' = decodeMuLawToPCM16(mulawData)
    /\ decoded' = TRUE
    /\ UNCHANGED <<mulawData, connVars>>

NextDec == Decode

SpecDec == InitDec /\ [][NextDec]_vars

-----------------------------------------------------------------------------
(* Properties *)

LiveRecs == {k \in 1 .. Len(recs) : recs[k].closeCalls = 0}

IsMedia(raw) == raw.json = "object" /\ raw.event = "media"

(* C1: at most one RecognitionSession (a recognizer not yet released, with  *)
(* its sink) exists for the CallSession in every reachable state.           *)
C1_AtMostOneSession == Cardinality(LiveRecs) <= 1

(* a message that is not a well-formed control message *)
Malformed(raw) ==
    \/ raw.json # "object"
    \/ raw.event \notin {"start", "media", "stop"}
    \/ (raw.event = "media" /\ ~IsValidMedia(raw))

(* C2: a message that is not a well-formed control message is discarded:    *)
(* the handler does not throw and changes nothing of the session or the     *)
(* transport.                                                               *)
C2_MalformedDiscarded ==
    (last.op = "message" /\ Malformed(last.raw)) => (~last.threw /\ ~last.changed)

(* C3 as stated: of any two non-empty final events the first of which was   *)
(* forwarded, the second is forwarded exactly when it is 2000 ms or more    *)
(* after the first.                                                         *)
C3_AnyTwoFinals ==
    \A i, j \in 1 .. Len(finals) :
        (i < j /\ finals[i].fwd) =>
            (finals[j].fwd <=> (finals[j].at - finals[i].at >= DebounceMs))

(* C3, amended: of two non-empty final events the first of which was        *)
(* forwarded, the second is not forwarded when it is less than 2000 ms      *)
(* after the first, and is forwarded when it is 2000 ms or more after the   *)
(* first and no final event between the two was forwarded; so two           *)
(* forwarded events are at least 2000 ms apart.                             *)
C3_Debounce ==
    \A i, j \in 1 .. Len(finals) :
        (i < j /\ finals[i].fwd) =>
            /\ (finals[j].at - finals[i].at < DebounceMs) => ~finals[j].fwd
            /\ ( /\ finals[j].at - finals[i].at >= DebounceMs
                 /\ \A m \in (i + 1) .. (j - 1) : ~finals[m].fwd ) => finals[j].fwd

C3_Witness ==
    /\ Len(finals) = 3
    /\ finals[1].fwd
    /\ finals[2].at - finals[1].at = DebounceMs - 1
    /\ ~finals[2].fwd
    /\ finals[3].at - finals[1].at = DebounceMs
    /\ finals[3].fwd

(* C4: a media message handled before any start message writes to no sink,  *)
(* raises nothing and leaves the session state as it was.                   *)
C4_MediaBeforeStart ==
    (last.op = "message" /\ IsMedia(last.raw) /\ ~last.hadStart) =>
        (last.wrote = 0 /\ ~last.threw /\ ~last.changed /\ sinks = <<>>)

C4_Witness ==
    last.op = "message" /\ IsValidMedia(last.raw) /\ ~last.hadStart /\ steps > 1

(* C5: a media message handled after the sink was closed is discarded: no   *)
(* write call reaches the closed sink and nothing is raised.                *)
C5_MediaAfterTeardown ==
    (last.op = "message" /\ IsMedia(last.raw) /\ last.pre = "closed") =>
        (last.wrote = 0 /\ ~last.threw)

(* C6: a second run of the close handler right after the first raises       *)
(* nothing and releases nothing again: no sink has been closed twice and    *)
(* no recognizer has had its stop-and-release initiated twice.              *)
C6_TeardownTwice ==
    (last.op = "close" /\ last.prev = "close") =>
        /\ ~last.threw
        /\ \A k \in 1 .. Len(sinks) : sinks[k].closeCalls <= 1
        /\ \A k \in 1 .. Len(recs) : recs[k].stopCalls <= 1

ExpectedWrites ==
    [i \in 1 .. Len(arrived) |->
        PackInt16LE(decodeMuLawToPCM16(Base64Decode(arrived[i])))]

(* C7: after start, N valid media frames, stop and the transport close,     *)
(* one recognizer was opened, its sink holds the N frames in arrival        *)
(* order, this side closed the transport once, and the teardown ran once.   *)
C7_Scenario ==
    phase = "done" =>
        /\ Len(recs) = 1
        /\ Len(sinks) = 1
        /\ sinks[1].writes = ExpectedWrites
        /\ sinks[1].lateWrites = 0
        /\ wsCloseCalls = 1
        /\ closeRuns = 1
        /\ sinks[1].closeCalls = 1
        /\ recs[1].stopCalls = 1
        /\ ~crashed

C7_Witness ==
    phase = "done" /\ Len(arrived) = 2 /\ arrived[1] # arrived[2]

(* C8: once the transport has closed and every stop continuation has run,   *)
(* every recognizer opened during the call has been released.               *)
C8_AllReleased ==
    ( /\ wsState = "closed"
      /\ ~crashed
      /\ \A k \in 1 .. Len(recs) : recs[k].pending = 0 ) =>
        \A k \in 1 .. Len(recs) : recs[k].closeCalls >= 1

RECURSIVE LastForwardedBefore(_)
LastForwardedBefore(j) ==
    IF j = 1 THEN 0
    ELSE IF finals[j - 1].fwd THEN finals[j - 1].at
    ELSE LastForwardedBefore(j - 1)

(* C9: an interim-result event changes nothing of the session (no webhook   *)
(* submission, no change of the debounce timestamp), and whether a final    *)
(* event is forwarded depends on the final events alone.                    *)
C9_InterimInert ==
    /\ last.op = "interim" => ~last.changed
    /\ N8N => \A j \in 1 .. Len(finals) :
                 finals[j].fwd <=>
                     (finals[j].at - LastForwardedBefore(j) >= DebounceMs)

C9_Witness ==
    /\ last.op = "final"
    /\ last.prev = "interim"
    /\ Len(finals) = 2
    /\ finals[1].fwd
    /\ finals[2].fwd
    /\ finals[2].at - finals[1].at = DebounceMs

(* the magnitude of the claim, from the bits of the complemented byte *)
SpecMagnitude(b) ==
    LET inv == 255 - b
    IN  ((inv % 16) * 8 + 132) * Pow2((inv \div 16) % 8) - 132

(* C10 as stated: one sample per byte, in order, of the stated magnitude,   *)
(* negative when the top bit of the input byte is set.                      *)
C10_SignOfInputBit ==
    decoded =>
        /\ Len(pcm16) = Len(mulawData)
        /\ \A i \in 1 .. Len(mulawData) :
              pcm16[i] = IF mulawData[i] >= 128 THEN -SpecMagnitude(mulawData[i])
                         ELSE SpecMagnitude(mulawData[i])

(* C10, amended: one sample per byte, in order, of the stated magnitude,    *)
(* negative when the top bit of the input byte is clear and non-negative    *)
(* when it is set.                                                          *)
C10_Decoder ==
    decoded =>
        /\ Len(pcm16) = Len(mulawData)
        /\ \A i \in 1 .. Len(mulawData) :
              pcm16[i] = IF mulawData[i] < 128 THEN -SpecMagnitude(mulawData[i])
                         ELSE SpecMagnitude(mulawData[i])

C10_Witness ==
    decoded /\ mulawData = <<0, 128>> /\ pcm16 = <<-32124, 32124>>

(* the buffer each payload of the model decodes to *)
DecodedFrame ==
    [f \in ValidFrames \cup {NotBase64} |->
        PackInt16LE(decodeMuLawToPCM16(Base64Decode(f)))]

RECURSIVE WritesUpTo(_)
WritesUpTo(k) == IF k = 0 THEN <<>> ELSE WritesUpTo(k - 1) \o sinks[k].writes

AllWrites == WritesUpTo(Len(sinks))

(* C11: the media frames accepted while a sink exists are written one       *)
(* write per frame, in arrival order: the writes of the sinks, taken in     *)
(* the order the sinks were created, are the decoded frames in the order    *)
(* they arrived, and no write is made on a closed sink.                     *)
C11_WritesInArrivalOrder ==
    /\ AllWrites = [i \in 1 .. Len(frames) |-> DecodedFrame[frames[i]]]
    /\ \A k \in 1 .. Len(sinks) : sinks[k].lateWrites = 0

C11_Witness ==
    /\ Len(frames) = 2
    /\ frames[1] # frames[2]
    /\ inflight > 0
    /\ last.op = "message"
    /\ last.wrote = 1
    /\ last.prev = "message"

RECURSIVE LastAcceptedBefore(_)
LastAcceptedBefore(j) ==
    IF j = 1 THEN 0
    ELSE IF finals[j - 1].acc THEN finals[j - 1].at
    ELSE LastAcceptedBefore(j - 1)

(* C12: a rejected POST is caught in the handler: nothing escapes, nothing  *)
(* is submitted again, and the transport, callSid, recognizer, sink and     *)
(* debounce timestamp stay as they were (only the pending POST is gone);    *)
(* whether a final event is accepted depends on the times of the final      *)
(* events alone, not on how any POST ended.                                 *)
C12_FailedDelivery ==
    /\ last.op = "fetchFailed" => (~last.threw /\ last.touched = {"inflight"})
    /\ \A j \in 1 .. Len(finals) :
          finals[j].acc <=> (finals[j].at - LastAcceptedBefore(j) >= DebounceMs)

C12_Witness ==
    /\ last.op = "final"
    /\ last.prev = "fetchFailed"
    /\ Len(finals) = 2
    /\ finals[1].fwd
    /\ finals[2].at - finals[1].at = DebounceMs - 1
    /\ ~finals[2].acc
    /\ Len(sent) = 1

(* the SDK has reported a failed start, a cancellation or a stopped session *)
Faulted(k) ==
    \/ recState[k].start = "failed"
    \/ recState[k].canceled
    \/ recState[k].sessionStopped

(* C13: a failed start, a canceled event and a session-stopped event change *)
(* nothing of the connection (the transport is not closed by this side, no  *)
(* recognizer is opened) and raise nothing; and once any of them has        *)
(* happened, a well-formed media message, a stop message and the transport  *)
(* close are still handled as usual: the frame is written to the open       *)
(* sink, ws.close() is called, the sink is closed and the stop initiated.   *)
C13_RecognizerFaults ==
    /\ last.op \in {"startFailed", "canceled", "sessionStopped"} =>
          (~last.threw /\ last.touched = {})
    /\ (\E k \in 1 .. Len(recs) : Faulted(k)) =>
          /\ (last.op = "message" /\ IsValidMedia(last.raw)) =>
                (~last.threw /\ (last.pre = "open" => last.wrote = 1))
          /\ (last.op = "message" /\ IsStop(last.raw)) =>
                (~last.threw /\ wsCloseCalls >= 1 /\ wsState # "open")
          /\ last.op = "close" =>
                /\ ~last.threw
                /\ sinks[pushStream].closeCalls = 1
                /\ recs[rec].stopCalls = 1

C13_Witness ==
    /\ last.op = "close"
    /\ Len(recs) = 1
    /\ recState[1].start = "failed"
    /\ recState[1].canceled
    /\ Len(sinks[1].writes) = 1


(* C14: a message handled after a stop message has been handled (this side  *)
(* has called ws.close()) opens no recognizer and writes to no sink.        *)
C14_ClosedTerminal ==
    ( /\ last.op = "message"
      /\ wsCloseCalls >= 1
      /\ IsStop(last.raw) => wsCloseCalls >= 2 ) =>
        /\ last.wrote = 0
        /\ last.touched \cap {"rec", "recs", "pushStream", "sinks"} = {}

RECURSIVE PeerLastAcceptedBefore(_)
PeerLastAcceptedBefore(j) ==
    IF j = 1 THEN 0
    ELSE IF peerFinals[j - 1].acc THEN peerFinals[j - 1].at
    ELSE PeerLastAcceptedBefore(j - 1)

(* C15: with two calls at once, whether a final result of a call is         *)
(* accepted for forwarding is decided by the times of the final results of  *)
(* that call alone, whatever the other call has had accepted or dropped in  *)
(* between.                                                                 *)
C15_DebouncePerCall ==
    /\ \A j \in 1 .. Len(peerFinals) :
          /\ peerFinals[j].acc <=>
                (peerFinals[j].at - PeerLastAcceptedBefore(j) >= DebounceMs)
          /\ peerFinals[j].fwd <=> (peerFinals[j].acc /\ N8N)
    /\ \A j \in 1 .. Len(finals) :
          /\ finals[j].acc <=> (finals[j].at - LastAcceptedBefore(j) >= DebounceMs)
          /\ finals[j].fwd <=> (finals[j].acc /\ N8N)

C15_Witness ==
    /\ Len(finals) = 2
    /\ Len(peerFinals) = 1
    /\ finals[1].fwd
    /\ peerFinals[1].fwd
    /\ peerFinals[1].at - finals[1].at = 1
    /\ finals[2].at - finals[1].at = DebounceMs
    /\ finals[2].fwd

(* the non-empty final result handled last *)
LastFinal == finals[Len(finals)]

(* C16: lastSentTime always is the time of the latest accepted final        *)
(* result (0 before the first).  It is written only by the handling of a    *)
(* non-empty final result that is accepted, in that very handler run, when  *)
(* the POST has been issued and has not settled; a dropped final result     *)
(* changes nothing, and neither outcome of a POST changes it.  So a final   *)
(* result less than 2000 ms after an accepted one is dropped, whether or    *)
(* not the earlier POST is still in flight.                                 *)
C16_TimestampAtAcceptance ==
    /\ lastSentTime = LastAcceptedBefore(Len(finals) + 1)
    /\ "lastSentTime" \in last.touched => (last.op = "final" /\ LastFinal.acc)
    /\ (last.op = "final" /\ LastFinal.acc) =>
          /\ lastSentTime = LastFinal.at
          /\ N8N => (inflight >= 1 /\ last.touched = {"lastSentTime", "sent", "inflight"})
    /\ (last.op = "final" /\ ~LastFinal.acc) => last.touched = {}
    /\ last.op \in {"fetchOk", "fetchFailed"} => last.touched = {"inflight"}
    /\ (last.op = "final" /\ LastFinal.at - LastAcceptedBefore(Len(finals)) < DebounceMs)
          => ~LastFinal.acc

C16_Witness ==
    /\ last.op = "final"
    /\ last.prev = "final"
    /\ Len(finals) = 2
    /\ finals[1].fwd
    /\ inflight = 1
    /\ finals[2].at - finals[1].at = DebounceMs - 1
    /\ ~finals[2].acc
    /\ lastSentTime = finals[1].at

RECURSIVE Released(_)
Released(k) == IF k = 0 THEN 0 ELSE recs[k].closeCalls + Released(k - 1)

RECURSIVE Settled(_)
Settled(k) ==
    IF k = 0 THEN 0 ELSE (recs[k].stopCalls - recs[k].pending) + Settled(k - 1)

(* C17: the close handler calls the sink's close first and then initiates   *)
(* the recognizer's stop, also when the sink's close throws, and lets       *)
(* nothing escape; rec.close() is called by the stop continuations alone,   *)
(* so no more releases have been made than continuations have run.          *)
C17_TeardownOrder ==
    /\ (last.op = "close" /\ last.hadStart) =>
          /\ last.log \in {<<"sinkClose", "stopInit">>, <<"sinkCloseThrew", "stopInit">>}
          /\ ~last.threw
          /\ recs[rec].pending >= 1
    /\ (last.op = "close" /\ ~last.hadStart) => (last.log = <<>> /\ ~last.threw)
    /\ Released(Len(recs)) <= Settled(Len(recs))

C17_Witness ==
    /\ last.op = "close"
    /\ last.log = <<"sinkCloseThrew", "stopInit">>
    /\ recs[rec].stopCalls = 1
    /\ recs[rec].pending = 1
    /\ recs[rec].closeCalls = 0
    /\ Len(sinks[pushStream].writes) >= 1

(* the call identifier a start message carries *)
SidOf(raw) == IF raw.start = <<>> THEN "" ELSE raw.start[1]

(* C18: only non-empty final results are submitted; every submitted event   *)
(* carries the call identifier of the start message that opened the         *)
(* recognizer that produced it ("" when that message had none); and an      *)
(* empty final result changes nothing.                                      *)
C18_OwningCallSid ==
    /\ \A i \in 1 .. Len(sent) : sent[i].text # ""
    /\ (last.op = "final" /\ "sent" \in last.touched) =>
          sent[Len(sent)].callSid = SidOf(openedBy[last.k])
    /\ last.op = "finalEmpty" => last.touched = {}

(* C19: once the close handler has run, no final result is submitted to     *)
(* the webhook.                                                             *)
C19_NoSubmitAfterTeardown ==
    (last.op = "final" /\ closeRuns >= 1) => "sent" \notin last.touched

(* C20: for every byte the number the decoder computes lies within          *)
(* -32124 .. 32124, so the Int16Array holds it as computed and              *)
(* writeInt16LE accepts it; the bytes 255 and 127 decode to 0.              *)
C20_DecoderRange ==
    decoded =>
        \A i \in 1 .. Len(mulawData) :
            /\ SampleValue(mulawData[i]) \in -32124 .. 32124
            /\ pcm16[i] = SampleValue(mulawData[i])
            /\ ~WriteInt16LEThrows(pcm16[i])
            /\ mulawData[i] \in {255, 127} => pcm16[i] = 0

C20_Witness ==
    decoded /\ mulawData = <<255, 127, 0>> /\ pcm16 = <<0, 0, -32124>>

=============================================================================
